---- MODULE Spec2Model ----
(***************************************************************************)
(* Humidity calculator (src/hum.py): the psychrometric core and the script *)
(* that calls it.                                                          *)
(*                                                                         *)
(* Python floats are modelled as decimal floating-point numbers of sixteen *)
(* significant digits (a double holds 15.95):                              *)
(*     [sg |-> sign, hi |-> h, lo |-> l, x |-> exponent]                   *)
(* stands for sg * (h * 10^8 + l) * 10^x, with 10^7 <= h < 10^8 and        *)
(* 0 <= l < 10^8, or is Zero.  Every operation truncates its exact result  *)
(* to sixteen digits.  math.exp and math.log are computed by range         *)
(* reduction and series; math.exp raises OverflowError above the double    *)
(* range and a division by zero raises ZeroDivisionError, as in Python.    *)
(***************************************************************************)
EXTENDS Integers, Sequences, FiniteSets, TLC

----------------------------------------------------------------------------
(* Decimal floating point *)

\* a mantissa is hi * Half + lo; products are formed from limbs below Limb
Half == 10^8
Limb == 10^4

Zero == [sg |-> 0, hi |-> 0, lo |-> 0, x |-> 0]

\* float("nan"): the one value that is no m * 10^x
NaN == [sg |-> 0, hi |-> 0, lo |-> 0, x |-> 1]

RECURSIVE Norm(_, _, _, _)
\* the float s * (h * 10^8 + l) * 10^x for 0 <= h < 2^31, 0 <= l < 10^8,
\* its mantissa truncated to sixteen digits
Norm(s, h, l, x) ==
  IF h = 0 /\ l = 0 THEN Zero
  ELSE IF h = 0 THEN Norm(s, l, 0, x - 8)
  ELSE IF h >= Half THEN Norm(s, h \div 10, (h % 10) * (Half \div 10) + l \div 10, x + 1)
  ELSE IF h < Half \div 10 THEN Norm(s, h * 10 + l \div (Half \div 10), (l % (Half \div 10)) * 10, x - 1)
  ELSE [sg |-> s, hi |-> h, lo |-> l, x |-> x]

\* the float literal n * 10^x
Dec(n, x) == Norm(IF n < 0 THEN -1 ELSE 1, IF n < 0 THEN -n ELSE n, 0, x - 8)

FNeg(a) == [a EXCEPT !.sg = -a.sg]

FAbs(a) == [a EXCEPT !.sg = IF a.sg = 0 THEN 0 ELSE 1]

\* the mantissa <<h, l>> shifted right by d >= 0 digits
ShiftRight(h, l, d) ==
  IF d = 0 THEN <<h, l>>
  ELSE IF d < 8 THEN <<h \div 10^d, (h % 10^d) * 10^(8 - d) + l \div 10^d>>
  ELSE IF d = 8 THEN <<0, h>>
  ELSE IF d < 17 THEN <<0, h \div 10^(d - 8)>>
  ELSE <<0, 0>>

\* the difference of mantissas <<h1, l1>> >= <<h2, l2>>, with sign s
Diff(s, h1, l1, h2, l2, x) ==
  IF l1 >= l2 THEN Norm(s, h1 - h2, l1 - l2, x)
  ELSE Norm(s, h1 - h2 - 1, l1 + Half - l2, x)

\* the sum of s1 * <<bh, bl>> and s2 * <<sh, sl>>, both scaled by 10^x
AddMant(s1, s2, bh, bl, sh, sl, x) ==
  IF s1 = s2 THEN Norm(s1, bh + sh + (bl + sl) \div Half, (bl + sl) % Half, x)
  ELSE IF bh > sh \/ (bh = sh /\ bl >= sl) THEN Diff(s1, bh, bl, sh, sl, x)
  ELSE Diff(s2, sh, sl, bh, bl, x)

\* big + small for big.x > small.x, sm the mantissa of small aligned to that of
\* big taken with one more digit (a guard digit, so that a difference of close
\* operands is exact)
AddShifted(big, small, sm) ==
  AddMant(big.sg, small.sg, big.hi * 10 + big.lo \div (Half \div 10),
          (big.lo % (Half \div 10)) * 10, sm[1], sm[2], big.x - 1)

\* big + small for big.x >= small.x
AddAligned(big, small) ==
  IF big.x = small.x
    THEN AddMant(big.sg, small.sg, big.hi, big.lo, small.hi, small.lo, big.x)
    ELSE AddShifted(big, small, ShiftRight(small.hi, small.lo, big.x - small.x - 1))

\* a + b
FAdd(a, b) ==
  IF a.sg = 0 THEN b
  ELSE IF b.sg = 0 THEN a
  ELSE IF a.x >= b.x THEN AddAligned(a, b)
  ELSE AddAligned(b, a)

FSub(a, b) == FAdd(a, FNeg(b))

RECURSIVE Carry(_, _, _)
\* the base-Limb digits of a number given by its column sums, lowest first:
\* out holds the digits found, c is the carry into the next column
Carry(cols, c, out) ==
  IF cols = <<>> THEN Append(out, c)
  ELSE Carry(Tail(cols), (Head(cols) + c) \div Limb, Append(out, (Head(cols) + c) % Limb))

\* the eight limbs d[1] (lowest) .. d[8] of a product, cut to sixteen digits
MulPack(s, d, x) ==
  IF d[8] >= 1000
    THEN [sg |-> s, hi |-> d[8] * Limb + d[7], lo |-> d[6] * Limb + d[5], x |-> x + 16]
    ELSE [sg |-> s,
          hi |-> d[8] * 100000 + d[7] * 10 + d[6] \div 1000,
          lo |-> (d[6] % 1000) * 100000 + d[5] * 10 + d[4] \div 1000,
          x  |-> x + 15]

\* the product of the mantissas of limbs a3 .. a0 and b3 .. b0
MulLimbs(s, x, a3, a2, a1, a0, b3, b2, b1, b0) ==
  MulPack(s,
          Carry(<< a0 * b0,
                   a1 * b0 + a0 * b1,
                   a2 * b0 + a1 * b1 + a0 * b2,
                   a3 * b0 + a2 * b1 + a1 * b2 + a0 * b3,
                   a3 * b1 + a2 * b2 + a1 * b3,
                   a3 * b2 + a2 * b3,
                   a3 * b3 >>, 0, <<>>),
          x)

\* a * b: the 32-digit product from four-digit limbs, cut to sixteen digits
FMul(a, b) ==
  IF a.sg = 0 \/ b.sg = 0 THEN Zero
  ELSE MulLimbs(a.sg * b.sg, a.x + b.x,
                a.hi \div Limb, a.hi % Limb, a.lo \div Limb, a.lo % Limb,
                b.hi \div Limb, b.hi % Limb, b.lo \div Limb, b.lo % Limb)

\* q, or q - 1 where q * (bh * 10^8 + bl) exceeds rh * 10^8 + rl
QuotFix(rh, rl, bh, bl, q) ==
  IF \/ q * bh + (q * bl) \div Half > rh
     \/ q * bh + (q * bl) \div Half = rh /\ (q * bl) % Half > rl
    THEN q - 1
    ELSE q

\* the quotient digit floor((rh * 10^8 + rl) / (bh * 10^8 + bl)), at most 9: the
\* estimate from the high parts is right or one too large
QuotDigit(rh, rl, bh, bl) ==
  QuotFix(rh, rl, bh, bl, IF rh \div bh > 9 THEN 9 ELSE rh \div bh)

\* the remainder <<rh, rl>> less the product <<ph, pl>>
Less(rh, rl, ph, pl) ==
  IF rl >= pl THEN <<rh - ph, rl - pl>> ELSE <<rh - ph - 1, rl + Half - pl>>

\* the remainder (rh * 10^8 + rl) - q * (bh * 10^8 + bl)
Remainder(rh, rl, bh, bl, q) ==
  Less(rh, rl, q * bh + (q * bl) \div Half, (q * bl) % Half)

\* the state of a long division after the quotient digit q of <<th, tl>>
DivStep(s, th, tl, bh, bl, q, r) ==
  [n |-> s.n - 1, rh |-> r[1], rl |-> r[2], q |-> s.q * 10 + q]

\* the quotient digit of <<th, tl>> and the state after it
DivDigit(s, th, tl, bh, bl, q) ==
  DivStep(s, th, tl, bh, bl, q, Remainder(th, tl, bh, bl, q))

RECURSIVE LongDiv(_, _, _)
\* s.n more quotient digits of (s.rh * 10^8 + s.rl) / (bh * 10^8 + bl), the
\* remainder being below the divisor, appended to s.q
LongDiv(s, bh, bl) ==
  IF s.n = 0 THEN s
  ELSE LongDiv(DivDigit(s, s.rh * 10 + s.rl \div (Half \div 10),
                        (s.rl % (Half \div 10)) * 10, bh, bl,
                        QuotDigit(s.rh * 10 + s.rl \div (Half \div 10),
                                  (s.rl % (Half \div 10)) * 10, bh, bl)),
               bh, bl)

\* the quotient of high digits p1.q, completed by eight low digits
DivLow(s, x, p1, bh, bl) ==
  [sg |-> s, hi |-> p1.q, x |-> x,
   lo |-> LongDiv([n |-> 8, rh |-> p1.rh, rl |-> p1.rl, q |-> 0], bh, bl).q]

\* the quotient from its first digit q0 and the remainder r0 after it: seven more
\* high digits, or eight if q0 = 0
DivHigh(a, b, q0, r0, n1) ==
  DivLow(a.sg * b.sg, a.x - b.x - 8 - n1,
         LongDiv([n |-> n1, rh |-> r0[1], rl |-> r0[2], q |-> q0], b.hi, b.lo),
         b.hi, b.lo)

DivFrom(a, b, q0) ==
  DivHigh(a, b, q0, Remainder(a.hi, a.lo, b.hi, b.lo, q0), IF q0 = 0 THEN 8 ELSE 7)

\* a / b by long division, cut to sixteen digits.  Python raises ZeroDivisionError
\* for b = 0: the steps that can divide by zero test for it before they divide, and
\* the quotient by zero is no number
FDiv(a, b) ==
  IF b.sg = 0 THEN NaN
  ELSE IF a.sg = 0 THEN Zero
  ELSE DivFrom(a, b, QuotDigit(a.hi, a.lo, b.hi, b.lo))

FLt(a, b) == FSub(a, b).sg < 0
FLe(a, b) == FSub(a, b).sg <= 0
FGt(a, b) == FLt(b, a)
FGe(a, b) == FLe(b, a)

\* Python's max(a, b) and min(a, b): the first argument unless the second beats it
FMax(a, b) == IF FGt(b, a) THEN b ELSE a
FMin(a, b) == IF FLt(b, a) THEN b ELSE a

\* the integer part of a, for |a| < 10^9
Trunc(a) ==
  IF a.x < -15 THEN 0
  ELSE IF a.x <= -8 THEN a.sg * (a.hi \div 10^(-8 - a.x))
  ELSE a.sg * (a.hi * 10^(a.x + 8) + a.lo \div 10^(-a.x))

\* the nearest integer to a, for |a| < 10^9
Round(a) == Trunc(FAdd(a, IF a.sg < 0 THEN Dec(-5, -1) ELSE Dec(5, -1)))

One == Dec(1, 0)

\* ln 10 = Ln10Hi + Ln10Lo, Ln10Hi short enough that k * Ln10Hi is exact
Ln10Hi == Dec(2302585, -6)
Ln10Lo == [sg |-> 1, hi |-> 92994045, lo |-> 68401799, x |-> -23]
Ln10 == [sg |-> 1, hi |-> 23025850, lo |-> 92994046, x |-> -15]
Ln2 == [sg |-> 1, hi |-> 69314718, lo |-> 5599453, x |-> -16]

RECURSIVE ExpSeries(_, _)
\* Horner's rule for the Taylor series of e^r, from the innermost factor out:
\* 1 + r/1 * (1 + r/2 * (... (1 + r/s.n * s.acc)))
ExpSeries(r, s) ==
  IF s.n = 0 THEN s.acc
  ELSE ExpSeries(r, [n   |-> s.n - 1,
                     acc |-> FAdd(One, FMul(FDiv(r, Dec(s.n, 0)), s.acc))])

\* math.exp raises OverflowError above this argument (the largest double is e^709.78...)
ExpOverflows(a) == FGt(a, Dec(70978271, -5))

\* a - k ln 10, kf the float of k
ExpReduce(a, kf) == FSub(FSub(a, FMul(kf, Ln10Hi)), FMul(kf, Ln10Lo))

\* e^a as 10^k * e^r, with a = k ln 10 + r and |r| <= 1.16
ExpScaled(a, k) ==
  [ExpSeries(ExpReduce(a, Dec(k, 0)), [n |-> 22, acc |-> One]) EXCEPT !.x = @ + k]

\* math.exp(a) where it does not overflow; below the double range the result is 0.0
FExp(a) ==
  IF FLt(a, Dec(-74513321, -5)) THEN Zero
  ELSE ExpScaled(a, Round(FDiv(a, Ln10)))

RECURSIVE AtanhSeries(_, _)
\* Horner's rule for atanh(z)/z = 1 + z2/3 + z2^2/5 + ..., z2 = z^2, from the
\* innermost term out: 1/1 + z2 * (1/3 + z2 * (... (1/(2 s.n - 1) + z2 * s.acc)))
AtanhSeries(z2, s) ==
  IF s.n = 0 THEN s.acc
  ELSE AtanhSeries(z2, [n   |-> s.n - 1,
                        acc |-> FAdd(FDiv(One, Dec(2 * s.n - 1, 0)), FMul(z2, s.acc))])

\* 2 atanh(z)
Atanh2(z) ==
  FMul(Dec(2, 0), FMul(z, AtanhSeries(FMul(z, z), [n |-> 18, acc |-> Zero])))

\* ln v for 1 <= v < 2: 2 atanh((v - 1)/(v + 1))
LogNearOne(v) == Atanh2(FDiv(FSub(v, One), FAdd(v, One)))

\* the j with 2^j <= u < 2^(j+1), for 1 <= u < 10
Octave(u) ==
  IF FGe(u, Dec(8, 0)) THEN 3
  ELSE IF FGe(u, Dec(4, 0)) THEN 2
  ELSE IF FGe(u, Dec(2, 0)) THEN 1
  ELSE 0

\* ln(u * 10^k) for 2^j <= u < 2^(j+1)
LogScaled(u, j, k) ==
  FAdd(FAdd(FMul(Dec(k, 0), Ln10), FMul(Dec(j, 0), Ln2)), LogNearOne(FDiv(u, Dec(2^j, 0))))

\* ln(u * 10^k) for 1 <= u < 10
LogMantissa(u, k) == LogScaled(u, Octave(u), k)

\* math.log(a) for a > 0
FLog(a) == LogMantissa([a EXCEPT !.x = -15], a.x + 15)

----------------------------------------------------------------------------
(* The core functions of src/hum.py *)

\* the argument of math.exp in the Buck equation:
\* (18.678 - (t_c / 234.5)) * (t_c / (257.14 + t_c))
BuckExponent(t_c) ==
  FMul(FSub(Dec(18678, -3), FDiv(t_c, Dec(2345, -1))),
       FDiv(t_c, FAdd(Dec(25714, -2), t_c)))

\* the exception saturation_vapor_pressure_kpa(t_c) raises, or "none":
\* ZeroDivisionError at 257.14 + t_c = 0, OverflowError from math.exp
SvpError(t_c) ==
  IF FAdd(Dec(25714, -2), t_c).sg = 0 THEN "ZeroDivisionError"
  ELSE IF ExpOverflows(BuckExponent(t_c)) THEN "OverflowError"
  ELSE "none"

saturation_vapor_pressure_kpa(t_c) ==
  FMul(Dec(61121, -5), FExp(BuckExponent(t_c)))

\* the psychrometric constant with the pressure forgotten: return A
PsychrometricConstantNoPressure(t_wb_c, p_kpa) ==
  FMul(Dec(66, -5), FAdd(One, FMul(Dec(115, -5), t_wb_c)))

\* A = 0.00066 * (1 + 0.00115 * t_wb_c); return A * p_kpa
psychrometric_constant_kpa_per_c(t_wb_c, p_kpa) ==
  LET A == FMul(Dec(66, -5), FAdd(One, FMul(Dec(115, -5), t_wb_c)))
  IN  FMul(A, p_kpa)

\* e = e_ws_wb - gamma * (t_db_c - t_wb_c), before it is clamped
UnclampedVaporPressure(t_db_c, t_wb_c, p_kpa) ==
  FSub(saturation_vapor_pressure_kpa(t_wb_c),
       FMul(psychrometric_constant_kpa_per_c(t_wb_c, p_kpa), FSub(t_db_c, t_wb_c)))

\* the vapor pressure without its upper clamp: e = max(0.0, e) only
VaporPressureNoUpperClamp(t_db_c, t_wb_c, p_kpa) ==
  FMax(Zero, UnclampedVaporPressure(t_db_c, t_wb_c, p_kpa))

\* e = max(0.0, e); e = min(e, saturation_vapor_pressure_kpa(t_db_c))
actual_vapor_pressure_kpa(t_db_c, t_wb_c, p_kpa) ==
  FMin(FMax(Zero, UnclampedVaporPressure(t_db_c, t_wb_c, p_kpa)),
       saturation_vapor_pressure_kpa(t_db_c))

\* the denominator without its floor: p_kpa - e_kpa
UnflooredDenominator(e_kpa, p_kpa) == FSub(p_kpa, e_kpa)

\* the denominator max(1e-9, (p_kpa - e_kpa))
HumidityRatioDenominator(e_kpa, p_kpa) == FMax(Dec(1, -9), FSub(p_kpa, e_kpa))

\* 0.62198 * e_kpa / max(1e-9, (p_kpa - e_kpa))
humidity_ratio_kg_per_kg_dry_air(e_kpa, p_kpa) ==
  FDiv(FMul(Dec(62198, -5), e_kpa), HumidityRatioDenominator(e_kpa, p_kpa))

\* omega / (1.0 + omega)
specific_humidity_kg_per_kg_moist_air(omega) == FDiv(omega, FAdd(One, omega))

\* the guard with < for <=: e_kpa < 0
DewPointGuardStrict(e_kpa) == FLt(e_kpa, Zero)

\* the guard of dew_point_from_vapor_pressure: e_kpa <= 0
DewPointGuard(e_kpa) == FLe(e_kpa, Zero)

\* ln_ratio = math.log(e_kpa / 0.61121)
LnRatio(e_kpa) == FLog(FDiv(e_kpa, Dec(61121, -5)))

\* the exception the initial guess raises, or "none": it divides by ln_ratio + 18.678
GuessError(e_kpa) ==
  IF FAdd(LnRatio(e_kpa), Dec(18678, -3)).sg = 0 THEN "ZeroDivisionError" ELSE "none"

\* t = (257.14 * 18.678 - 257.14 * ln_ratio) / (ln_ratio + 18.678) - 5.0
InitialGuess(e_kpa) ==
  LET ln_ratio == LnRatio(e_kpa)
  IN  FSub(FDiv(FSub(FMul(Dec(25714, -2), Dec(18678, -3)),
                     FMul(Dec(25714, -2), ln_ratio)),
                FAdd(ln_ratio, Dec(18678, -3))),
           Dec(5, 0))

\* dt = 0.01
Dt == Dec(1, -2)

\* the exception one pass of the loop body raises, or "none": the first raised by
\* saturation_vapor_pressure_kpa at t, t + dt, t - dt
IterationError(tc) ==
  IF SvpError(tc) # "none" THEN SvpError(tc)
  ELSE IF SvpError(FAdd(tc, Dt)) # "none" THEN SvpError(FAdd(tc, Dt))
  ELSE SvpError(FSub(tc, Dt))

\* f = saturation_vapor_pressure_kpa(t) - e_kpa
Residual(tc, e_kpa) == FSub(saturation_vapor_pressure_kpa(tc), e_kpa)

\* df = saturation_vapor_pressure_kpa(t + dt) - saturation_vapor_pressure_kpa(t - dt)
\* df /= (2 * dt)
Derivative(tc) ==
  FDiv(FSub(saturation_vapor_pressure_kpa(FAdd(tc, Dt)),
            saturation_vapor_pressure_kpa(FSub(tc, Dt))),
       FMul(Dec(2, 0), Dt))

\* the guard with a mistyped threshold: abs(df) < 1e-18
DerivativeGuardTypo(d) == FLt(FAbs(d), Dec(1, -18))

\* if abs(df) < 1e-8: break
DerivativeGuard(d) == FLt(FAbs(d), Dec(1, -8))

\* t -= f / df
NewtonUpdate(tc, fv, d) == FSub(tc, FDiv(fv, d))

\* for _ in range(8)
NewtonIters == 8

----------------------------------------------------------------------------
(* Inputs *)

\* the sliders' initial positions, degrees Celsius: value=30.0 and value=24.0
DefaultDryBulb == 30
DefaultWetBulb == 24

\* number of slider positions explored, from the dry-bulb default downwards in
\* steps of the default wet-bulb depression
GridTemps == 4

GridTemperatures ==
  { Dec(DefaultDryBulb - (k - 1) * (DefaultDryBulb - DefaultWetBulb), 0) : k \in 1 .. GridTemps }

\* barometric pressures entered in kPa: the default 101.325 and 73.0
Pressures == { Dec(101325, -3), Dec(73, 0) }

\* further positions of the widgets <<t_db, t_wb, p_kpa>>: saturation at 0 C and at the
\* ends of the sliders, the driest input, two inputs of very low vapor pressure, and
\* two with the wet bulb above the dry bulb
Scenarios ==
  { << Zero, Zero, Dec(101325, -3) >>,
    << Dec(-30, 0), Dec(-30, 0), Dec(101325, -3) >>,
    << Dec(60, 0), Dec(60, 0), Dec(101325, -3) >>,
    << Dec(60, 0), Dec(-30, 0), Dec(101325, -3) >>,
    << Dec(-25, -1), Dec(-9, 0), Dec(73, 0) >>,
    << Dec(10, 0), Dec(-2, 0), Dec(668, -1) >>,
    << Zero, Dec(1, -1), Dec(101325, -3) >>,
    << Dec(-30, 0), Dec(60, 0), Dec(101325, -3) >> }

Inputs ==
  Scenarios \cup { << a, b, p >> : a \in GridTemperatures, b \in GridTemperatures, p \in Pressures }

\* temperatures, pressures and vapor pressures handed to the core functions by a
\* caller other than the script: pressures at and below the vapor pressures, vapor
\* pressures negative, zero, very low, and at and above a pressure
CoreTemperatures == GridTemperatures
CorePressures == { Dec(101325, -3), Dec(25, -1) }
CoreVaporPressures == { Dec(-1, 0), Zero, Dec(8, -5), Dec(9, -5), Dec(25, -1), Dec(5, 0) }

----------------------------------------------------------------------------
(* The script, lines 94-122, and dew_point_from_vapor_pressure step by step *)

VARIABLES
  t_db, t_wb, p_kpa,  \* the inputs
  pc,                 \* the statement to execute next
  invalid,            \* the script's flag
  errors,             \* number of st.error messages shown
  env,                \* the script's results: name -> value, as far as assigned
  calls,              \* the core functions invoked so far
  loc,                \* locals of dew_point_from_vapor_pressure, as far as assigned
  iter,               \* loop passes begun
  updates,            \* updates t -= f / df applied
  broke,              \* the loop was left by break
  ln_evals,           \* evaluations of math.log
  exc                 \* the exception raised, or "none"

vars == << t_db, t_wb, p_kpa, pc, invalid, errors, env, calls, loc, iter, updates,
           broke, ln_evals, exc >>

Empty == [n \in {} |-> Zero]

\* the namespace ns with name n bound to v
Bind(ns, n, v) == [k \in DOMAIN ns \cup {n} |-> IF k = n THEN v ELSE ns[k]]

Blank ==
  /\ invalid = FALSE
  /\ errors = 0
  /\ calls = {}
  /\ loc = Empty
  /\ iter = 0
  /\ updates = 0
  /\ broke = FALSE
  /\ ln_evals = 0
  /\ exc = "none"

\* a run of the script: the widgets hold the inputs, line 94 is next
Init ==
  /\ \E i \in Inputs :
       /\ t_db = i[1]
       /\ t_wb = i[2]
       /\ p_kpa = i[3]
  /\ pc = "validate"
  /\ env = Empty
  /\ Blank

\* lines 94-99: invalid = False; if t_wb > t_db: st.error(...); invalid = True
Validate ==
  /\ pc = "validate"
  /\ IF FGt(t_wb, t_db)
       THEN /\ invalid' = TRUE
            /\ errors' = errors + 1
            /\ pc' = "end"
       ELSE /\ pc' = "calc_e"
            /\ UNCHANGED << invalid, errors >>
  /\ UNCHANGED << t_db, t_wb, p_kpa, env, calls, loc, iter, updates, broke, ln_evals, exc >>

\* line 101: e_kpa = actual_vapor_pressure_kpa(t_db, t_wb, p_kpa)
CalcE ==
  /\ pc = "calc_e"
  /\ env' = Bind(env, "e_kpa", actual_vapor_pressure_kpa(t_db, t_wb, p_kpa))
  /\ calls' = calls \cup {"actual_vapor_pressure_kpa"}
  /\ pc' = "calc_es_db"
  /\ UNCHANGED << t_db, t_wb, p_kpa, invalid, errors, loc, iter, updates, broke, ln_evals, exc >>

\* line 102: es_db_kpa = saturation_vapor_pressure_kpa(t_db)
CalcEsDb ==
  /\ pc = "calc_es_db"
  /\ env' = Bind(env, "es_db_kpa", saturation_vapor_pressure_kpa(t_db))
  /\ calls' = calls \cup {"saturation_vapor_pressure_kpa"}
  /\ pc' = "calc_rh"
  /\ UNCHANGED << t_db, t_wb, p_kpa, invalid, errors, loc, iter, updates, broke, ln_evals, exc >>

\* the relative humidity left a fraction: the factor 100.0 forgotten
RelativeHumidityFraction(e_kpa, es_db_kpa) ==
  IF FGt(es_db_kpa, Zero) THEN FDiv(e_kpa, es_db_kpa) ELSE NaN

\* (e_kpa / es_db_kpa) * 100.0 if es_db_kpa > 0 else float("nan")
RelativeHumidity(e_kpa, es_db_kpa) ==
  IF FGt(es_db_kpa, Zero) THEN FMul(FDiv(e_kpa, es_db_kpa), Dec(100, 0)) ELSE NaN

\* line 103: rh = ...
CalcRh ==
  /\ pc = "calc_rh"
  /\ env' = Bind(env, "rh", RelativeHumidity(env.e_kpa, env.es_db_kpa))
  /\ pc' = "calc_omega"
  /\ UNCHANGED << t_db, t_wb, p_kpa, invalid, errors, calls, loc, iter, updates, broke, ln_evals, exc >>

\* line 104: omega = humidity_ratio_kg_per_kg_dry_air(e_kpa, p_kpa)
CalcOmega ==
  /\ pc = "calc_omega"
  /\ env' = Bind(env, "omega", humidity_ratio_kg_per_kg_dry_air(env.e_kpa, p_kpa))
  /\ calls' = calls \cup {"humidity_ratio_kg_per_kg_dry_air"}
  /\ pc' = "calc_q"
  /\ UNCHANGED << t_db, t_wb, p_kpa, invalid, errors, loc, iter, updates, broke, ln_evals, exc >>

\* line 105: q = specific_humidity_kg_per_kg_moist_air(omega)
CalcQ ==
  /\ pc = "calc_q"
  /\ env' = Bind(env, "q", specific_humidity_kg_per_kg_moist_air(env.omega))
  /\ calls' = calls \cup {"specific_humidity_kg_per_kg_moist_air"}
  /\ pc' = "calc_t_dp"
  /\ UNCHANGED << t_db, t_wb, p_kpa, invalid, errors, loc, iter, updates, broke, ln_evals, exc >>

\* line 106 calls dew_point_from_vapor_pressure(e_kpa); lines 39-40:
\* if e_kpa <= 0: return float("nan")
DewPointEnter ==
  /\ pc = "calc_t_dp"
  /\ calls' = calls \cup {"dew_point_from_vapor_pressure"}
  /\ loc' = Bind(Empty, "e_kpa", env.e_kpa)
  /\ pc' = IF DewPointGuard(env.e_kpa) THEN "dp_return" ELSE "dp_guess"
  /\ UNCHANGED << t_db, t_wb, p_kpa, invalid, errors, env, iter, updates, broke, ln_evals, exc >>

\* lines 41-42: ln_ratio = math.log(e_kpa / 0.61121); t = (...) / (ln_ratio + 18.678) - 5.0
DewPointGuess ==
  /\ pc = "dp_guess"
  /\ ln_evals' = ln_evals + 1
  /\ IF GuessError(loc.e_kpa) # "none"
       THEN /\ exc' = GuessError(loc.e_kpa)
            /\ pc' = "raised"
            /\ loc' = Bind(loc, "ln_ratio", LnRatio(loc.e_kpa))
       ELSE /\ loc' = Bind(Bind(loc, "ln_ratio", LnRatio(loc.e_kpa)),
                           "t", InitialGuess(loc.e_kpa))
            /\ pc' = "dp_loop"
            /\ UNCHANGED exc
  /\ UNCHANGED << t_db, t_wb, p_kpa, invalid, errors, env, calls, iter, updates, broke >>

\* lines 43-50: one pass of the loop body
NewtonIteration ==
  /\ pc = "dp_loop"
  /\ iter < NewtonIters
  /\ iter' = iter + 1
  /\ IF IterationError(loc.t) # "none"
       THEN /\ exc' = IterationError(loc.t)
            /\ pc' = "raised"
            /\ UNCHANGED << loc, updates, broke >>
       ELSE LET f  == Residual(loc.t, loc.e_kpa)
                df == Derivative(loc.t)
                l1 == Bind(Bind(Bind(loc, "f", f), "dt", Dt), "df", df)
            IN  /\ IF DerivativeGuard(df)
                     THEN /\ broke' = TRUE
                          /\ loc' = l1
                          /\ pc' = "dp_return"
                          /\ UNCHANGED updates
                     ELSE /\ loc' = [l1 EXCEPT !.t = NewtonUpdate(loc.t, f, df)]
                          /\ updates' = updates + 1
                          /\ pc' = "dp_loop"
                          /\ UNCHANGED broke
                /\ UNCHANGED exc
  /\ UNCHANGED << t_db, t_wb, p_kpa, invalid, errors, env, calls, ln_evals >>

\* the value dew_point_from_vapor_pressure returns: line 40, or line 51
ReturnValue == IF "t" \in DOMAIN loc THEN loc.t ELSE NaN

\* line 51: return t (the range is exhausted or the loop was left by break), or the
\* return of line 40; line 106 binds t_dp
DewPointReturn ==
  /\ \/ pc = "dp_return"
     \/ pc = "dp_loop" /\ iter = NewtonIters
  /\ env' = Bind(env, "t_dp", ReturnValue)
  /\ pc' = "display"
  /\ UNCHANGED << t_db, t_wb, p_kpa, invalid, errors, calls, loc, iter, updates, broke, ln_evals, exc >>

Next ==
  \/ Validate
  \/ CalcE
  \/ CalcEsDb
  \/ CalcRh
  \/ CalcOmega
  \/ CalcQ
  \/ DewPointEnter
  \/ DewPointGuess
  \/ NewtonIteration
  \/ DewPointReturn

Spec == Init /\ [][Next]_vars

\* the core functions called by another caller, who validates nothing: either
\* actual_vapor_pressure_kpa and then the functions the script applies to its
\* result, or the functions of a vapor pressure for one the caller supplies
InitCore ==
  /\ p_kpa \in CorePressures
  /\ \/ /\ t_db \in CoreTemperatures
        /\ t_wb \in CoreTemperatures
        /\ pc = "calc_e"
        /\ env = Empty
     \/ /\ t_db = Zero
        /\ t_wb = Zero
        /\ pc = "calc_omega"
        /\ env \in { Bind(Empty, "e_kpa", e) : e \in CoreVaporPressures }
  /\ Blank

NextCore ==
  \/ CalcE
  \/ CalcEsDb
  \/ CalcRh
  \/ CalcOmega
  \/ CalcQ
  \/ DewPointEnter
  \/ DewPointGuess
  \/ NewtonIteration
  \/ DewPointReturn

SpecCore == InitCore /\ [][NextCore]_vars

----------------------------------------------------------------------------
(* Properties *)

\* v is a number, not float("nan")
IsNumber(v) == v # NaN

\* v is a number within the range of a double
IsFinite(v) == IsNumber(v) /\ v.x + 15 <= 308

\* v is n * 10^x when rounded to that precision
Approx(v, n, x) == FLe(FAbs(FSub(v, Dec(n, x))), Dec(5, x - 1))

Has(n) == n \in DOMAIN env

\* line 106 has bound t_dp: dew_point_from_vapor_pressure returned
Returned == Has("t_dp")

\* the run is over: the results are displayed, or the script ended on the
\* validation error, or an exception ended it
Over == pc \in {"display", "end", "raised"}

Accepted == FLe(t_wb, t_db)

C2RoundTrip ==
  (Returned /\ Has("es_db_kpa") /\ env.e_kpa = env.es_db_kpa) =>
    FLe(FAbs(FSub(env.t_dp, t_db)), Dec(1, -2))

ScenarioInputs ==
  /\ t_db = Dec(DefaultDryBulb, 0)
  /\ t_wb = Dec(DefaultWetBulb, 0)
  /\ p_kpa = Dec(101325, -3)

C4SaturatedAtNoDepression ==
  (t_wb = t_db /\ "actual_vapor_pressure_kpa" \in calls) =>
    /\ Has("es_db_kpa") => env.e_kpa = env.es_db_kpa
    /\ Has("rh") => env.rh = Dec(100, 0)

\* the relative humidity of an input without depression has been computed
C4NoDepressionComputed ==
  /\ t_wb = t_db
  /\ "actual_vapor_pressure_kpa" \in calls
  /\ Has("rh")

\* C5: for e <= 0 dew_point_from_vapor_pressure returns float("nan"), evaluates no
\* logarithm, runs no iteration and raises nothing; for e > 0 what it returns is a
\* number
C5SentinelForNonPositive ==
  "e_kpa" \in DOMAIN loc =>
    IF FLe(loc.e_kpa, Zero)
      THEN /\ ln_evals = 0
           /\ iter = 0
           /\ exc = "none"
           /\ pc # "raised"
           /\ Returned => env.t_dp = NaN
      ELSE Returned => IsNumber(env.t_dp)

\* dew_point_from_vapor_pressure(0) has returned
C5ZeroReturned ==
  /\ "e_kpa" \in DOMAIN loc
  /\ loc.e_kpa = Zero
  /\ Returned

Outputs == {"e_kpa", "rh", "omega", "q", "t_dp"}

\* C6: a run with Twb > Tdb reports an error, invokes no core function and produces
\* no result; a run with Twb <= Tdb reports no error and computes all five outputs
C6ValidationGate ==
  IF FGt(t_wb, t_db)
    THEN /\ calls = {}
         /\ env = Empty
         /\ pc # "validate" => (errors = 1 /\ invalid /\ pc = "end")
    ELSE /\ errors = 0
         /\ ~invalid
         /\ Over => (pc = "display" /\ Outputs \subseteq DOMAIN env)

\* C7: a call of dew_point_from_vapor_pressure makes at most 8 passes of the loop,
\* and once it is over without the derivative guard having fired, for e > 0, exactly
\* 8 updates of t have been applied
C7EightUpdates ==
  /\ iter <= 8
  /\ updates <= iter
  /\ (Over /\ "e_kpa" \in DOMAIN loc /\ FGt(loc.e_kpa, Zero) /\ ~broke) => updates = 8

C9NoUpdateOnFlatDerivative ==
  /\ ("df" \in DOMAIN loc /\ FLt(FAbs(loc.df), Dec(1, -8))) =>
       /\ broke
       /\ pc \in {"dp_return", "display"}
  /\ broke =>
       /\ updates = iter - 1
       /\ Returned => env.t_dp = loc.t

\* the loop was left by break and the call has returned
C9BrokeAndReturned == broke /\ Returned /\ FLt(FAbs(loc.df), Dec(1, -8))

\* C10: in a run on an accepted input the dew point is float("nan") exactly when the
\* unclamped e_s(Twb) - gamma * (Tdb - Twb) is <= 0, and then the relative humidity,
\* the humidity ratio and the specific humidity are 0; otherwise e > 0 and the dew
\* point is a number
C10SentinelIffUnclampedNonPositive ==
  (Accepted /\ Over) =>
    IF FLe(UnclampedVaporPressure(t_db, t_wb, p_kpa), Zero)
      THEN /\ Returned
           /\ env.t_dp = NaN
           /\ env.rh = Zero
           /\ env.omega = Zero
           /\ env.q = Zero
      ELSE /\ FGt(env.e_kpa, Zero)
           /\ Returned
           /\ IsNumber(env.t_dp)

----------------------------------------------------------------------------
(* What holds of the runs that an exception does not end *)

\* the validation decides as the script has it: a run with Twb > Tdb reports one
\* error, calls nothing and produces nothing; a run with Twb <= Tdb reports no error
\* and, once it displays, has all five outputs
ValidationDecides ==
  IF FGt(t_wb, t_db)
    THEN /\ calls = {}
         /\ env = Empty
         /\ pc # "validate" => (errors = 1 /\ invalid /\ pc = "end")
    ELSE /\ errors = 0
         /\ ~invalid
         /\ pc # "end"
         /\ pc = "display" => Outputs \subseteq DOMAIN env

\* no call makes more than 8 passes, and a call that returns from the loop without
\* the guard having fired has applied 8 updates
ReturnedAfterEightUpdates ==
  /\ iter <= 8
  /\ updates <= iter
  /\ (Returned /\ FGt(loc.e_kpa, Zero) /\ ~broke) => updates = 8

\* a run that displays shows float("nan") for the dew point exactly when the
\* unclamped vapor pressure is <= 0, and then 0 for the three humidities
DisplayedSentinelIffUnclampedNonPositive ==
  pc = "display" =>
    IF FLe(UnclampedVaporPressure(t_db, t_wb, p_kpa), Zero)
      THEN /\ env.t_dp = NaN
           /\ env.rh = Zero
           /\ env.omega = Zero
           /\ env.q = Zero
      ELSE /\ FGt(env.e_kpa, Zero)
           /\ IsNumber(env.t_dp)

\* an exception ends a run only inside the loop of dew_point_from_vapor_pressure,
\* for a vapor pressure e > 0, as OverflowError
RaisedOnlyInLoop ==
  pc = "raised" =>
    /\ exc = "OverflowError"
    /\ iter >= 1
    /\ FGt(loc.e_kpa, Zero)
    /\ ~Returned

====
